---- MODULE Spec2Model ----
(***************************************************************************)
(* Prototype-based similarity partitioning (classify.py, PSP_minimal.py). *)
(* Similarities are exact tenths: the integer v stands for v/10, so 10 is  *)
(* the similarity 1.0 of the diagonal.  Original data-set indices are      *)
(* 0-based as in the source; numpy arrays are sequences, so the array      *)
(* element a[i] of the source is a[i + 1] here.                            *)
(***************************************************************************)
EXTENDS Integers, Sequences, FiniteSets, TLC

MaxN == 4
MaxM == 2

One == 10
Levels == {1, 9, One}
Thresholds == {0, 5, One}
AdjacencyLevels == {1, One}

VARIABLES n, simmat, thresh,
          pc,
          indexMap, unclassified, classno, mask,
          prototypes, members, map, index,
          hist,
          aug

vars == <<n, simmat, thresh, pc, indexMap, unclassified, classno, mask,
          prototypes, members, map, index, hist, aug>>

----------------------------------------------------------------------------
(* numpy helpers, computed the way the source uses them *)

Idx(nn) == 0 .. (nn - 1)

Arange(nn) == [k \in 1 .. nn |-> k - 1]

ToSet(arr) == {arr[k] : k \in 1 .. Len(arr)}

RECURSIVE SumSeq(_)
SumSeq(s) == IF Len(s) = 0 THEN 0 ELSE Head(s) + SumSeq(Tail(s))

RECURSIVE MaxSeq(_)
MaxSeq(s) == IF Len(s) = 1 THEN s[1]
             ELSE LET r == MaxSeq(Tail(s)) IN IF s[1] >= r THEN s[1] ELSE r

Int16(x) == ((x + 32768) % 65536) - 32768

RECURSIVE ArgMaxLastFrom(_, _, _)
ArgMaxLastFrom(s, k, best) ==
    IF k > Len(s) THEN best
    ELSE ArgMaxLastFrom(s, k + 1, IF s[k] >= s[best] THEN k ELSE best)

ArgMaxLast(s) == ArgMaxLastFrom(s, 2, 1) - 1

RECURSIVE ArgMaxFrom(_, _, _)
ArgMaxFrom(s, k, best) ==
    IF k > Len(s) THEN best
    ELSE ArgMaxFrom(s, k + 1, IF s[k] > s[best] THEN k ELSE best)

\* np.argmax: the 0-based position of the first occurrence of the maximum
ArgMax(s) == ArgMaxFrom(s, 2, 1) - 1

\* np.nonzero(row)[0] / np.where(cond)[0]: ascending 0-based positions
NonZero(row) == SelectSeq(Arange(Len(row)), LAMBDA p : row[p + 1] # 0)

\* np.delete(s, m): drop the 0-based positions listed in m, keep the order
Delete(s, m) ==
    LET keep == SelectSeq(Arange(Len(s)), LAMBDA p : p \notin ToSet(m))
    IN  [j \in 1 .. Len(keep) |-> s[keep[j] + 1]]

DeleteRows(mk, m) == Delete(mk, m)

DeleteCols(mk, m) == [r \in 1 .. Len(mk) |-> Delete(mk[r], m)]

RowSums(mk) == [r \in 1 .. Len(mk) |-> SumSeq(mk[r])]

\* indexMap[m]: fancy indexing of an array by an array of positions
Take(arr, m) == [j \in 1 .. Len(m) |-> arr[m[j] + 1]]

\* mask = (simmat >= thresh).astype('int8')
Mask(s, nn, th) ==
    [r \in 1 .. nn |-> [c \in 1 .. nn |-> IF s[r - 1][c - 1] >= th THEN 1 ELSE 0]]

RemainingOne(u, m) == u - 1

\* unclassified -= len(m)
Remaining(u, m) == u - Len(m)

\* classAssigned[members] = classno  (classAssigned is an int16 array)
Assign(mp, mem, c) ==
    [i \in DOMAIN mp |-> IF i \in ToSet(mem) THEN Int16(c) ELSE mp[i]]

\* one Class index entry; fraction = count / totalcount kept as a ratio
Entry(c, proto, mem, total) ==
    [class |-> c, prototype |-> proto, count |-> Len(mem), members |-> mem,
     fraction |-> <<Len(mem), total>>]

\* the loop that builds the Class index from prototypes and members
BuildIndex(protos, mems, total) ==
    [c \in 1 .. Len(protos) |-> Entry(c, protos[c], mems[c], total)]

----------------------------------------------------------------------------
(* inputs *)

Pairs(nn) == {p \in Idx(nn) \X Idx(nn) : p[1] < p[2]}

\* symmetric matrix with unit diagonal from its upper triangle (makeSimMat)
FromUpper(nn, u) ==
    [i \in Idx(nn) |-> [j \in Idx(nn) |->
        IF i = j THEN One ELSE IF i < j THEN u[<<i, j>>] ELSE u[<<j, i>>]]]

\* the concrete scenario: sim[0][1] = 0.9, sim[2][3] = 0.8, others 0.1
Scenario ==
    [i \in Idx(4) |-> [j \in Idx(4) |->
        IF i = j THEN One
        ELSE IF {i, j} = {0, 1} THEN 9
        ELSE IF {i, j} = {2, 3} THEN 8
        ELSE 1]]

\* bookkeeping of the calls made so far: the last operation, its argument,
\* and the Assignment map computed by the last run of reassign()
NoHist == [op |-> "init", k |-> 0, rmap |-> <<>>]

NoAug == [status |-> "none", simmat2 |-> <<>>, prototypes2 |-> <<>>,
          map2 |-> <<>>, members2 |-> <<>>, index2 |-> <<>>, totalcount2 |-> 0]

\* the state of __init__ / PSP on entry to the while loop
InitWith(nn, s, th) ==
    /\ n = nn
    /\ simmat = s
    /\ thresh = th
    /\ pc = "loop"
    /\ prototypes = <<>>
    /\ members = <<>>
    /\ map = [i \in Idx(nn) |-> 0]
    /\ indexMap = Arange(nn)
    /\ unclassified = nn
    /\ classno = 0
    /\ mask = Mask(s, nn, th)
    /\ index = <<>>
    /\ hist = NoHist
    /\ aug = NoAug

Init ==
    \/ \E nn \in 1 .. MaxN, th \in Thresholds :
         \E u \in [Pairs(nn) -> Levels] : InitWith(nn, FromUpper(nn, u), th)
    \/ InitWith(4, Scenario, 5)

\* The construction reads the matrix only through the mask, so two similarity
\* values yield every symmetric adjacency pattern: the family used where the
\* order among similarities plays no part.
InitAdjacency ==
    \/ \E nn \in 1 .. MaxN, th \in Thresholds :
         \E u \in [Pairs(nn) -> AdjacencyLevels] :
            InitWith(nn, FromUpper(nn, u), th)
    \/ InitWith(4, Scenario, 5)

----------------------------------------------------------------------------
(* the greedy construction *)

\* one pass of the while loop: one class found
GreedyStep ==
    /\ pc = "loop"
    /\ unclassified > 0
    /\ IF Len(mask) = 0
       THEN \* np.argmax of an empty array raises ValueError
            /\ pc' = "ValueError"
            /\ UNCHANGED <<indexMap, unclassified, classno, mask,
                           prototypes, members, map>>
       ELSE LET cp  == ArgMax(RowSums(mask))
                m   == NonZero(mask[cp + 1])
                mem == Take(indexMap, m)
            IN  /\ prototypes' = Append(prototypes, indexMap[cp + 1])
                /\ unclassified' = Remaining(unclassified, m)
                /\ members' = Append(members, mem)
                /\ classno' = classno + 1
                /\ map' = Assign(map, mem, classno + 1)
                /\ mask' = DeleteCols(DeleteRows(mask, m), m)
                /\ indexMap' = Delete(indexMap, m)
                /\ pc' = pc
    /\ UNCHANGED <<n, simmat, thresh, index, hist, aug>>

\* loop exit: the results become the attributes and the Class index is built
Finish ==
    /\ pc = "loop"
    /\ ~(unclassified > 0)
    /\ index' = BuildIndex(prototypes, members, n)
    /\ pc' = "done"
    /\ UNCHANGED <<n, simmat, thresh, indexMap, unclassified, classno, mask,
                   prototypes, members, map, hist, aug>>

----------------------------------------------------------------------------
(* reassign *)

ClassOfZeroBased(col) == ArgMax(col)

ClassOfLast(col) == ArgMaxLast(col) + 1

\* np.argmax(submat, axis=0) + 1: classes are numbered from one
ClassOf(col) == ArgMax(col) + 1

\* submat = simmat[prototypes, :]; the column of original index i
Column(protos, s, i) == [c \in 1 .. Len(protos) |-> s[protos[c]][i]]

ReassignMap(protos, s, nn) == [i \in Idx(nn) |-> ClassOf(Column(protos, s, i))]

\* np.where(map == iclass)[0]
Where(mp, nn, c) == SelectSeq(Arange(nn), LAMBDA i : mp[i] = c)

\* np.max(map)
MaxMap(mp, nn) == MaxSeq([k \in 1 .. nn |-> mp[k - 1]])

ReassignMembers(mp, nn) == [c \in 1 .. MaxMap(mp, nn) |-> Where(mp, nn, c)]

\* The result of reassign() for a Prototype sequence: the new map and member
\* list, and the Class index as far as the loop gets: self.members[i] raises
\* IndexError at the first class beyond the member list.
ReassignResult(protos, s, nn) ==
    LET mp   == ReassignMap(protos, s, nn)
        mems == ReassignMembers(mp, nn)
        upto == IF Len(mems) < Len(protos) THEN Len(mems) ELSE Len(protos)
    IN  [map |-> mp, members |-> mems,
         index |-> BuildIndex(SubSeq(protos, 1, upto), mems, nn),
         ok |-> Len(mems) >= Len(protos)]

Reassign ==
    /\ pc = "done"
    /\ \E r \in {ReassignResult(prototypes, simmat, n)} :
           /\ map' = r.map
           /\ members' = r.members
           /\ index' = r.index
           /\ pc' = IF r.ok THEN "done" ELSE "IndexError"
           /\ hist' = [op |-> "reassign", k |-> 0, rmap |-> r.map]
    /\ UNCHANGED <<n, simmat, thresh, indexMap, unclassified, classno, mask,
                   prototypes, aug>>

----------------------------------------------------------------------------
(* sort *)

RECURSIVE InsertBeforeEqual(_, _)
InsertBeforeEqual(s, e) ==
    IF Len(s) = 0 THEN <<e>>
    ELSE IF Head(s).count > e.count
         THEN <<Head(s)>> \o InsertBeforeEqual(Tail(s), e)
         ELSE <<e>> \o s

RECURSIVE SortedReversedFrom(_, _, _)
SortedReversedFrom(idx, k, acc) ==
    IF k > Len(idx) THEN acc
    ELSE SortedReversedFrom(idx, k + 1, InsertBeforeEqual(acc, idx[k]))

\* sorted(index, key = count)[::-1]: descending, equal counts reversed
SortedReversed(idx) == SortedReversedFrom(idx, 1, <<>>)

RECURSIVE InsertDesc(_, _)
InsertDesc(s, e) ==
    IF Len(s) = 0 THEN <<e>>
    ELSE IF Head(s).count >= e.count
         THEN <<Head(s)>> \o InsertDesc(Tail(s), e)
         ELSE <<e>> \o s

RECURSIVE SortedFrom(_, _, _)
SortedFrom(idx, k, acc) ==
    IF k > Len(idx) THEN acc
    ELSE SortedFrom(idx, k + 1, InsertDesc(acc, idx[k]))

\* sorted(index, key = lambda c: c['count'], reverse = True): a stable sort,
\* each entry placed after the entries of greater or equal count before it
SortedByCount(idx) == SortedFrom(idx, 1, <<>>)

AssignIntZeroBased(mp, mem, c) ==
    [i \in DOMAIN mp |-> IF i \in ToSet(mem) THEN c - 1 ELSE mp[i]]

\* self.map[members] = iclass  (self.map is a plain int array here)
AssignInt(mp, mem, c) ==
    [i \in DOMAIN mp |-> IF i \in ToSet(mem) THEN c ELSE mp[i]]

RECURSIVE SortMapFrom(_, _, _)
SortMapFrom(sidx, k, mp) ==
    IF k > Len(sidx) THEN mp
    ELSE SortMapFrom(sidx, k + 1, AssignInt(mp, sidx[k].members, k))

\* p.append(self.prototypes[i]) for the i-th sorted class
SortPrototypes(protos, sidx) == [i \in 1 .. Len(sidx) |-> protos[i]]

\* The result of sort() for a Prototype sequence, Class index and map length
SortResult(protos, idx, nn) ==
    LET sidx == SortedByCount(idx)
    IN  [index |-> [i \in 1 .. Len(sidx) |-> [sidx[i] EXCEPT !.class = i]],
         map |-> SortMapFrom(sidx, 1, [i \in Idx(nn) |-> 0]),
         members |-> [i \in 1 .. Len(sidx) |-> sidx[i].members],
         prototypes |-> SortPrototypes(protos, sidx)]

Sort ==
    /\ pc = "done"
    /\ \E r \in {SortResult(prototypes, index, n)} :
           /\ index' = r.index
           /\ map' = r.map
           /\ members' = r.members
           /\ prototypes' = r.prototypes
           /\ hist' = [op |-> "sort", k |-> 0, rmap |-> <<>>]
    /\ UNCHANGED <<n, simmat, thresh, pc, indexMap, unclassified, classno,
                   mask, aug>>

----------------------------------------------------------------------------
(* truncate *)

PrefixOneMore(protos, k) ==
    SubSeq(protos, 1, IF k + 1 < Len(protos) THEN k + 1 ELSE Len(protos))

\* self.prototypes[0:maxclasses]
Prefix(protos, k) == SubSeq(protos, 1, IF k < Len(protos) THEN k ELSE Len(protos))

Truncate(k) ==
    /\ pc = "done"
    /\ \E r \in {ReassignResult(Prefix(prototypes, k), simmat, n)} :
         \E t \in {SortResult(Prefix(prototypes, k), r.index, n)} :
           /\ IF r.ok
              THEN /\ prototypes' = t.prototypes
                   /\ map' = t.map
                   /\ members' = t.members
                   /\ index' = t.index
                   /\ pc' = "done"
              ELSE /\ prototypes' = Prefix(prototypes, k)
                   /\ map' = r.map
                   /\ members' = r.members
                   /\ index' = r.index
                   /\ pc' = "IndexError"
           /\ hist' = [op |-> "truncate", k |-> k, rmap |-> r.map]
    /\ UNCHANGED <<n, simmat, thresh, indexMap, unclassified, classno, mask,
                   aug>>

----------------------------------------------------------------------------
(* augment *)

\* np.argmax(simmat2, axis=0): for each class, the row most similar to it
Prototypes2(s2, M, P) == [c \in 1 .. P |-> ArgMax([i \in 1 .. M |-> s2[i][c]])]

\* np.argmax(simmat2, axis=1) + 1
Map2(s2, M) == [i \in Idx(M) |-> ArgMax(s2[i + 1]) + 1]

\* classMembers2.append(np.where(self.map2 == iclass)): np.where is not
\* indexed here, so each entry is the 1-tuple (array,) holding the row array
Members2(mp, M) == [c \in 1 .. MaxMap(mp, M) |-> <<Where(mp, M, c)>>]

\* augment(datafull, simmat2) with datafull.shape[0] = D and an M x P simmat2;
\* the first call on a Partition
Augment(D, M, s2) ==
    /\ pc = "done"
    /\ aug.status = "none"
    /\ LET P    == Len(s2[1])
           mp   == Map2(s2, M)
           mems == Members2(mp, M)
           p2   == Prototypes2(s2, M, P)
       IN  IF D # M
           THEN aug' = [aug EXCEPT !.status = "ShapeError"]
           ELSE IF Len(mems) < Len(p2)
           THEN \* self.members2[i] raises IndexError; index2 is not assigned
                aug' = [aug EXCEPT !.status = "IndexError", !.simmat2 = s2,
                                   !.prototypes2 = p2, !.map2 = mp,
                                   !.members2 = mems, !.totalcount2 = D]
           ELSE aug' = [status |-> "ok", simmat2 |-> s2, prototypes2 |-> p2,
                        map2 |-> mp, members2 |-> mems, totalcount2 |-> D,
                        index2 |-> BuildIndex(p2, mems, D)]
    /\ UNCHANGED <<n, simmat, thresh, pc, indexMap, unclassified, classno, mask,
                   prototypes, members, map, index, hist>>

CrossMatrices(M, P) == [1 .. M -> [1 .. P -> Levels]]

----------------------------------------------------------------------------
(* specifications *)

Next ==
    \/ GreedyStep
    \/ Finish
    \/ Reassign
    \/ Sort
    \/ \E k \in 1 .. Len(prototypes) : Truncate(k)

Spec == Init /\ [][Next]_vars

\* the construction alone; the while loop keeps running until it exits
NextGreedy == GreedyStep \/ Finish

SpecGreedy == InitAdjacency /\ [][NextGreedy]_vars /\ WF_vars(NextGreedy)

\* construction followed by calls of augment
NextAug ==
    \/ GreedyStep
    \/ Finish
    \/ \E D \in 1 .. MaxM, M \in 1 .. MaxM :
         \E s2 \in CrossMatrices(M, Len(prototypes)) : Augment(D, M, s2)

SpecAug == InitAdjacency /\ [][NextAug]_vars
----------------------------------------------------------------------------
(* properties *)

\* the original indices no class has been given to
Unclassified == {i \in Idx(n) : map[i] = 0}

\* the degree of i among the indices still unclassified
Degree(i) == Cardinality({j \in Unclassified : simmat[i][j] >= thresh})

ClassesOf(i) == {c \in 1 .. Len(members) : i \in ToSet(members[c])}

IsPartition ==
    \A i \in Idx(n) :
        /\ map[i] >= 1
        /\ map[i] <= Len(members)
        /\ ClassesOf(i) = {map[i]}

Descending(idx) == \A c \in 1 .. Len(idx) - 1 : idx[c].count >= idx[c + 1].count

\* c is the lowest class number whose prototype is most similar to i
Nearest(protos, i, c) ==
    /\ c \in 1 .. Len(protos)
    /\ \A d \in 1 .. Len(protos) :
          /\ simmat[protos[d]][i] <= simmat[protos[c]][i]
          /\ d < c => simmat[protos[d]][i] < simmat[protos[c]][i]

\* C1: once construction has finished, and after every reassign(), sort() and
\* truncate(k), the Member sets and the Assignment map agree and form an exact
\* partition: every index has a map value c >= 1 and lies in members[c-1] and
\* in no other member set.
C1_ExactPartition == pc # "loop" => IsPartition

C1_Witness ==
    /\ pc = "done"
    /\ hist.op = "truncate"
    /\ n >= 4
    /\ Len(members) = 2
    /\ classno > 2

\* C2: each pass of the greedy loop picks as prototype the unclassified index
\* of largest degree among the unclassified, the lowest index among those
\* tied, and the new class is exactly the unclassified indices similar to it
\* at or above the threshold, the prototype included; the N = 4 scenario
\* yields prototypes [0,2], members {0,1}, {2,3} and map [1,1,2,2].
C2_GreedyChoice ==
    /\ [][(GreedyStep /\ pc' = "loop") =>
            LET p   == prototypes'[Len(prototypes')]
                cls == ToSet(members'[Len(members')])
            IN  /\ Len(prototypes') = Len(prototypes) + 1
                /\ Len(members') = Len(members) + 1
                /\ p \in Unclassified
                /\ \A i \in Unclassified :
                      \/ Degree(i) < Degree(p)
                      \/ Degree(i) = Degree(p) /\ p <= i
                /\ cls = {j \in Unclassified : simmat[p][j] >= thresh}
                /\ p \in cls
                /\ \A j \in Idx(n) :
                      map'[j] = IF j \in cls THEN Len(prototypes') ELSE map[j]]_vars
    /\ []((pc = "done" /\ n = 4 /\ simmat = Scenario /\ thresh = 5) =>
            /\ prototypes = <<0, 2>>
            /\ members = << <<0, 1>>, <<2, 3>> >>
            /\ map = [i \in Idx(4) |-> IF i < 2 THEN 1 ELSE 2])

C2_Witness ==
    /\ pc = "done"
    /\ n = 4
    /\ simmat = Scenario
    /\ thresh = 5
    /\ Len(prototypes) = 2

\* C3: after truncate(k) with 1 <= k <= current class count exactly k classes
\* exist (Prototype sequence, Member sets and Class index have k entries, every
\* map value lies in 1..k) and every index is in exactly one of them.
C3_TruncateCount ==
    hist.op = "truncate" =>
        /\ pc = "done"
        /\ Len(prototypes) = hist.k
        /\ Len(members) = hist.k
        /\ Len(index) = hist.k
        /\ \A i \in Idx(n) : map[i] \in 1 .. hist.k
        /\ IsPartition

C3_Witness ==
    /\ hist.op = "truncate"
    /\ hist.k = 2
    /\ classno = 3
    /\ Len(prototypes) = 2

\* C4: after sort(), for every class number c, prototypes[c-1] equals the
\* prototype recorded in the Class index entry numbered c.
C4_SortReordersPrototypes ==
    hist.op = "sort" =>
        \A c \in 1 .. Len(index) :
            /\ index[c].class = c
            /\ prototypes[c] = index[c].prototype

\* C5: truncate(k) called right after sort() retains exactly the prototypes of
\* the classes numbered 1..k in the Class index before the call.
C5_TruncateKeepsLargest ==
    [][\A k \in 1 .. Len(prototypes) :
          (hist.op = "sort" /\ Truncate(k)) =>
              ToSet(prototypes') = {index[c].prototype : c \in 1 .. k}]_vars

\* C6: reassign() leaves the Prototype sequence unchanged and gives every
\* index the class of its most similar prototype, whatever the threshold, the
\* lowest class number among equally similar prototypes.
C6_ReassignNearest ==
    /\ [][Reassign => prototypes' = prototypes]_vars
    /\ [](hist.op = "reassign" =>
            \A i \in Idx(n) : Nearest(prototypes, i, map[i]))

C6_Witness ==
    /\ hist.op = "reassign"
    /\ \E i \in Idx(n) : \E c, d \in 1 .. Len(prototypes) :
          /\ c < d
          /\ map[i] = c
          /\ simmat[prototypes[c]][i] = simmat[prototypes[d]][i]
          /\ simmat[prototypes[c]][i] < thresh

\* C7: sort() is a pure stable renumbering: afterwards the classes are numbered
\* 1..K in non-increasing order of count, classes of equal count keep their
\* relative order, the family of member sets is unchanged, and on an already
\* descending partition nothing changes.
C7_SortStable ==
    [][Sort =>
        /\ Len(index') = Len(index)
        /\ Len(members') = Len(members)
        /\ \A c \in 1 .. Len(index') :
              /\ index'[c].class = c
              /\ index'[c].members = members'[c]
              /\ index'[c].count = Len(members'[c])
        /\ Descending(index')
        /\ \A a, b \in 1 .. Len(index) :
              (a < b /\ index[a].count = index[b].count) =>
                  \E x, y \in 1 .. Len(index') :
                      /\ x < y
                      /\ index'[x].members = index[a].members
                      /\ index'[y].members = index[b].members
        /\ {ToSet(members'[c]) : c \in 1 .. Len(members')}
              = {ToSet(members[c]) : c \in 1 .. Len(members)}
        /\ \A i, j \in Idx(n) : (map'[i] = map'[j]) <=> (map[i] = map[j])
        /\ Descending(index) =>
              /\ index' = index
              /\ members' = members
              /\ map' = map
              /\ prototypes' = prototypes]_vars

C7_Witness ==
    /\ hist.op = "sort"
    /\ Len(index) >= 3
    /\ \E c \in 1 .. Len(index) - 1 : index[c].count = index[c + 1].count
    /\ index[1].count > index[Len(index)].count

\* the rows of the secondary data set held by a Member sets entry
Rows2(entry) == UNION {ToSet(entry[k]) : k \in 1 .. Len(entry)}

\* C8: after a successful augment, map2[i] is the lowest class number reaching
\* the maximum of row i, and the secondary Class index entry of every class c
\* has as members the rows i with map2[i] = c and as count their number.
C8_AugmentIndex ==
    aug.status = "ok" =>
        LET M == aug.totalcount2
            P == Len(aug.prototypes2)
        IN  /\ \A i \in Idx(M) :
                  /\ aug.map2[i] \in 1 .. P
                  /\ \A d \in 1 .. P :
                        /\ aug.simmat2[i + 1][d] <= aug.simmat2[i + 1][aug.map2[i]]
                        /\ d < aug.map2[i] =>
                              aug.simmat2[i + 1][d] < aug.simmat2[i + 1][aug.map2[i]]
            /\ \A c \in 1 .. P :
                  /\ Rows2(aug.index2[c].members) = {i \in Idx(M) : aug.map2[i] = c}
                  /\ aug.index2[c].count
                        = Cardinality({i \in Idx(M) : aug.map2[i] = c})

\* C9: the greedy loop terminates, exactly when no unclassified index remains,
\* with 1 <= K <= N classes; every pass classifies at least the prototype.
C9_Terminates ==
    /\ <>(pc = "done")
    /\ [](pc \in {"loop", "done"})
    /\ [](/\ unclassified = Cardinality(Unclassified)
          /\ Len(prototypes) = classno
          /\ classno + unclassified <= n)
    /\ [](pc = "done" =>
            /\ Unclassified = {}
            /\ 1 <= Len(prototypes)
            /\ Len(prototypes) <= n)

C9_Witness ==
    /\ pc = "done"
    /\ n >= 3
    /\ Len(prototypes) = n

\* C10: every run of reassign() gives each current prototype its own class
\* number, so no class is empty, the highest class number in the map is the
\* number of prototypes, and reassign() does not fail building the Class index.
C10_PrototypesKeepClass ==
    /\ pc \in {"loop", "done"}
    /\ hist.op \in {"reassign", "truncate"} =>
          /\ \A c \in 1 .. Len(prototypes) :
                /\ hist.rmap[prototypes[c]] = c
                /\ \E i \in Idx(n) : hist.rmap[i] = c
          /\ MaxMap(hist.rmap, n) = Len(prototypes)
          /\ Len(index) = Len(prototypes)
          /\ hist.op = "reassign" => map = hist.rmap

C10_Witness ==
    /\ hist.op = "reassign"
    /\ pc = "done"
    /\ Len(prototypes) >= 2
    /\ \E c \in 1 .. Len(index) - 1 : index[c].count < index[c + 1].count
====
